---- MODULE Spec2Model ----
(***************************************************************************)
(* Model of webcrawler.py: the resumable, batched, retrying uploader       *)
(* (upload_selected_articles_to_ada_robust and the functions it calls),    *)
(* the session state it keeps in st.session_state, and the callers in      *)
(* main() that invoke it.                                                  *)
(*                                                                         *)
(* One script run executes at a time.  A script run is stopped by the UI   *)
(* framework (rerun / stop) through a control exception that derives from  *)
(* BaseException and is raised inside a st.* call; "except Exception"      *)
(* handlers do not catch it.  That stop is the Interrupt action; the       *)
(* session state survives it, the locals of the invocation do not.         *)
(***************************************************************************)
EXTENDS Integers, Sequences, FiniteSets, TLC

\* ---------------------------------------------------------------- bounds
\* number of articles held in st.session_state['ada_formatted_data']
MaxArticles == 3
\* largest value of the "Batch Size" slider explored
MaxBatchSize == 2
\* largest value of the "Max Retries per Article" slider explored
MaxRetriesBound == 2
\* number of faults the environment injects in one behaviour: failed
\* delivery attempts and unexpected exceptions
MaxFaults == 1

\* the scenario of one failing article: most articles, largest batch size and
\* largest retry count explored
ScenarioArticles == 12
ScenarioBatch == 10
ScenarioRetries == 3

\* ------------------------------------------------------------- constants
\* min_value of the "Batch Size" slider
MinBatchSize == 1
\* min_value of the "Max Retries per Article" slider
MinRetries == 1

\* ---------------------------------------------------------------- values
None == "None"
\* a dict key that is not present
Absent == "absent"

VARIABLES
    \* where the script run is inside upload_selected_articles_to_ada_robust
    pc,
    \* st.session_state['upload_progress']['completed'] / ['current_batch']
    completed, current_batch,
    \* st.session_state['failed_uploads']
    session_failed_uploads,
    \* arguments of the invocation
    selected_articles, batch_size, max_retries,
    \* locals of the invocation
    resolved_articles, successful_uploads, failed_uploads, upload_results,
    start_batch, start_article, batch_idx, article_idx,
    \* locals of upload_with_never_stop_logic
    retry, last_error, result,
    \* how the last invocation ended: kind "none", "running", "interrupted",
    \* "raised" or "returned", with the returned pair
    outcome,
    \* the articles the knowledge source holds before the upload (environment)
    remote_articles,
    \* faults the environment has injected so far
    faults,
    \* the environment's script: 0, or the 1-based position of the one article
    \* whose every delivery attempt times out while all other attempts succeed
    plan,
    \* history: what the environment and the run did (read by no action guard)
    hist,
    \* where the script run is inside poll_crawl_status, and its local attempt
    poll_pc, attempt,
    \* main: what poll_crawl_status returned; st.session_state['crawl_results'];
    \* the heading or error main shows for it
    final_result, crawl_results, crawl_message,
    \* history of the poll: the status the last query reported, and how the
    \* poll ended
    poll_hist,
    \* the pages the knowledge source serves, in order (environment), and the
    \* articles passed to resolve_article_ids
    listing, scraped_input,
    \* where the run is inside resolve_article_ids / fetch_all_existing_articles
    fetch_pc,
    \* locals of fetch_all_existing_articles; next_url is the position of the
    \* page it points to, 0 for None
    next_url, page_count, all_articles,
    \* what fetch_all_existing_articles returned, what resolve_article_ids
    \* returned, and what it returned when run again on its own output
    fetch_result, resolution, resolution_rerun, resolution2,
    \* the URL of a crawled page, and the calls of the id and title generators
    \* made for it: the index passed, the id and the title returned
    source_url, generated,
    \* the field values of a payload of the crawl client (a status response or
    \* a page record), and what the code made of it in each shape handled so far
    payload, handled

vars == <<pc, completed, current_batch, session_failed_uploads,
          selected_articles, batch_size, max_retries,
          resolved_articles, successful_uploads, failed_uploads, upload_results,
          start_batch, start_article, batch_idx, article_idx,
          retry, last_error, result, outcome, remote_articles, faults, plan, hist,
          poll_pc, attempt, final_result, crawl_results, crawl_message, poll_hist,
          listing, scraped_input, fetch_pc, next_url, page_count, all_articles,
          fetch_result, resolution, resolution_rerun, resolution2,
          source_url, generated, payload, handled>>

sessionVars == <<completed, current_batch, session_failed_uploads>>
argVars == <<selected_articles, batch_size, max_retries>>
loopVars == <<start_batch, start_article, batch_idx, article_idx>>
countVars == <<successful_uploads, failed_uploads, upload_results>>
retryVars == <<retry, last_error, result>>
pollVars == <<poll_pc, attempt, final_result, crawl_results, crawl_message, poll_hist>>
listingVars == <<listing, scraped_input, fetch_pc, next_url, page_count,
                 all_articles, fetch_result, resolution, resolution_rerun, resolution2>>
\* what the uploader neither reads nor writes
genVars == <<source_url, generated, payload, handled>>
envVars == <<remote_articles, plan, pollVars, listingVars, genVars>>

\* ------------------------------------------------------------- sequences
Range(s) == {s[i] : i \in 1..Len(s)}

Min(a, b) == IF a < b THEN a ELSE b

\* the sub-sequence of s at the positions in the set P, in order
RECURSIVE Pick(_, _, _)
Pick(s, P, i) ==
    IF i > Len(s) THEN <<>>
    ELSE (IF i \in P THEN <<s[i]>> ELSE <<>>) \o Pick(s, P, i + 1)

\* every non-empty selection of entries of s, in the order of s
Selections(s) == {Pick(s, P, 1) : P \in (SUBSET (1..Len(s))) \ {{}}}

\* ------------------------------------------------------------ article data
\* Names and ids are positive integers; 0 models a missing or empty value
\* and Unhashable a JSON value (array, object) that cannot be a dict key.
Falsy == 0
Unhashable == -1
\* status_code None
NoStatus == 0

\* format_for_ada_upload: the article record built for page i.  Only the
\* fields the resolver and the uploader branch on are kept; last_error is
\* the key the uploader adds to the copies it stores in failed_uploads.
format_for_ada_upload(i) == [name |-> i, id |-> i, last_error |-> Absent]

\* st.session_state['ada_formatted_data']
ada_formatted_data == [i \in 1..MaxArticles |-> format_for_ada_upload(i)]

\* the selections the upload button is pressed with: the first n articles
SelectableLists == {SubSeq(ada_formatted_data, 1, n) : n \in 1..MaxArticles}

\* remote id of the remote article that carries name n
RemoteId(n) == 100 + n

\* results of fetch_all_existing_articles when the knowledge source holds
\* the articles remote: the listing, the listing with an entry whose name is
\* not a string, or a failed fetch
FetchResults(remote) ==
    { [success |-> TRUE, articles |-> remote],
      [success |-> TRUE,
       articles |-> Append(remote, [name |-> Unhashable, id |-> RemoteId(0)])],
      [success |-> FALSE, articles |-> <<>>] }

\* ------------------------------------------------------- resolve_article_ids
\* existing_name_to_id keeping the first id seen for a name
RECURSIVE existing_name_to_id_FirstWins(_, _)
existing_name_to_id_FirstWins(existing, n) ==
    IF n = 0 THEN [x \in {} |-> Falsy]
    ELSE LET m == existing_name_to_id_FirstWins(existing, n - 1)
             a == existing[n]
         IN  IF a.name # Falsy /\ a.id # Falsy /\ a.name \notin DOMAIN m
             THEN [x \in (DOMAIN m) \cup {a.name} |->
                      IF x = a.name THEN a.id ELSE m[x]]
             ELSE m

\* existing_name_to_id entering every named article, with or without an id
RECURSIVE existing_name_to_id_AnyId(_, _)
existing_name_to_id_AnyId(existing, n) ==
    IF n = 0 THEN [x \in {} |-> Falsy]
    ELSE LET m == existing_name_to_id_AnyId(existing, n - 1)
             a == existing[n]
         IN  IF a.name # Falsy
             THEN [x \in (DOMAIN m) \cup {a.name} |->
                      IF x = a.name THEN a.id ELSE m[x]]
             ELSE m

\* existing_name_to_id after the first n remote articles (last write wins)
RECURSIVE existing_name_to_id(_, _)
existing_name_to_id(existing, n) ==
    IF n = 0 THEN [x \in {} |-> Falsy]
    ELSE LET m == existing_name_to_id(existing, n - 1)
             a == existing[n]
         IN  IF a.name # Falsy /\ a.id # Falsy
             THEN [x \in (DOMAIN m) \cup {a.name} |->
                      IF x = a.name THEN a.id ELSE m[x]]
             ELSE m

\* the dict insertion raises TypeError for an unhashable name
ResolveRaises(res) ==
    /\ res.success
    /\ \E i \in 1..Len(res.articles) :
          res.articles[i].name = Unhashable /\ res.articles[i].id # Falsy

\* resolve_article_ids classifying as an update only an article whose id
\* changes
resolve_article_ids_OnlyChanged(scraped_articles, res) ==
    IF ~res.success THEN <<scraped_articles, 0, 0>>
    ELSE LET m == existing_name_to_id(res.articles, Len(res.articles))
             hit(i) == /\ scraped_articles[i].name \in DOMAIN m
                       /\ m[scraped_articles[i].name] # scraped_articles[i].id
             updated == [i \in 1..Len(scraped_articles) |->
                            IF hit(i)
                            THEN [scraped_articles[i] EXCEPT
                                     !.id = m[scraped_articles[i].name]]
                            ELSE scraped_articles[i]]
             ups == Cardinality({i \in 1..Len(scraped_articles) : hit(i)})
         IN  <<updated, ups, Len(scraped_articles) - ups>>

\* <<updated_articles, updates_count, new_articles_count>>
resolve_article_ids(scraped_articles, res) ==
    IF ~res.success THEN <<scraped_articles, 0, 0>>
    ELSE LET m == existing_name_to_id(res.articles, Len(res.articles))
             hit(i) == scraped_articles[i].name \in DOMAIN m
             updated == [i \in 1..Len(scraped_articles) |->
                            IF hit(i)
                            THEN [scraped_articles[i] EXCEPT
                                     !.id = m[scraped_articles[i].name]]
                            ELSE scraped_articles[i]]
             ups == Cardinality({i \in 1..Len(scraped_articles) : hit(i)})
         IN  <<updated, ups, Len(scraped_articles) - ups>>

\* ------------------------------------------------------ upload_article_to_ada
\* what one requests.post call does
Responses ==
    {[kind |-> "http", status |-> c] : c \in {200, 201, 204, 500}}
        \cup {[kind |-> k, status |-> NoStatus] : k \in {"timeout", "conn", "other"}}

upload_article_to_ada(resp) ==
    IF resp.kind = "http"
    THEN [success |-> resp.status \in {200, 201}, status_code |-> resp.status,
          error |-> None]
    ELSE [success |-> FALSE, status_code |-> NoStatus,
          error |-> CASE resp.kind = "timeout" -> "Request timeout (30s)"
                      [] resp.kind = "conn" -> "Connection error - check instance name and network"
                      [] OTHER -> "str(e)"]

\* the responses the uploader is run against
UploadResponses ==
    { [kind |-> "http", status |-> 200], [kind |-> "timeout", status |-> NoStatus] }

\* time.sleep(2 ** retry)
RECURSIVE Pow2(_)
Pow2(n) == IF n = 0 THEN 1 ELSE 2 * Pow2(n - 1)

\* -------------------------------------------------------------------- batches
\* batches = [resolved[i:i + batch_size] for i in range(0, len(resolved), batch_size)]
NumBatches(n, bs) == (n + bs - 1) \div bs
batches(resolved, bs) ==
    [b \in 1..NumBatches(Len(resolved), bs) |->
        SubSeq(resolved, (b - 1) * bs + 1, Min(b * bs, Len(resolved)))]

\* ---------------------------------------------------------------- the state
NoResult == [success |-> FALSE, error |-> None, retries |-> 0, status_code |-> NoStatus]

Ended(kind) == [kind |-> kind, successCount |-> 0, failCount |-> 0]

\* the history when no invocation has run; excFree: no unexpected exception
\* has been raised in the behaviour so far; fresh: the first invocation over
\* the selected list found the progress tracking at its initial values; left:
\* the completed count the invocation found in the session; tries, failures,
\* statuses, waits: the delivery attempts made for the current article, those
\* that failed, the status codes of the failed ones (NoStatus for an attempt
\* without a response) and the seconds slept after each; last: what the last
\* request of the current article did and how the attempt was classified;
\* size: the batch size of the interrupted invocation, where it is kept (0
\* otherwise)
NoHist ==
    [attempted |-> {}, delivered |-> {}, ordered |-> TRUE, rests |-> 0,
     excFree |-> TRUE, fresh |-> TRUE, resumes |-> FALSE, left |-> 0,
     prevDelivered |-> {}, prevAttempted |-> {},
     tries |-> 0, failures |-> 0, statuses |-> {}, waits |-> <<>>,
     last |-> [kind |-> "none", status |-> NoStatus, success |-> FALSE],
     size |-> 0]

\* history when upload_with_never_stop_logic is entered for an article
ArticleHist ==
    [hist EXCEPT !.tries = 0, !.failures = 0, !.statuses = {}, !.waits = <<>>,
                 !.last = NoHist.last]

\* history of an invocation that starts now; resumes says whether it follows
\* an interrupted invocation over the same selected list
NewHist(resumes) ==
    [NoHist EXCEPT
        !.excFree = hist.excFree,
        !.fresh = IF resumes THEN hist.fresh ELSE completed = 0 /\ current_batch = 0,
        !.resumes = resumes,
        !.left = completed,
        !.prevDelivered = IF resumes THEN hist.delivered ELSE {},
        !.prevAttempted = IF resumes THEN hist.attempted ELSE {}]

\* the value None where a status response or a job payload is expected
NoPayload == [status |-> None, completed |-> 0, total |-> 0, data |-> <<>>]

\* the history of a poll before its first query: the status, completed and
\* total read from the last status response ("exception" when the query
\* raised), how the poll ended, the queries made, and the value last given to
\* the progress bar as <<numerator, denominator>>
NoPollHist ==
    [status |-> "none", ended |-> "none", queries |-> 0, completed |-> 0, total |-> 0,
     progress |-> <<0, 1>>]

\* no crawl has been started in the session
PollerIdle ==
    /\ poll_pc = "idle"
    /\ attempt = 0
    /\ final_result = NoPayload
    /\ crawl_results = NoPayload
    /\ crawl_message = None
    /\ poll_hist = NoPollHist

\* the return values of a resolver that has not run
NoResolution ==
    [updated |-> <<>>, updates_count |-> 0, new_articles_count |-> 0, copies |-> FALSE]

\* the locals and results of a resolver that has not been called
ResolverIdle ==
    /\ fetch_pc = "idle"
    /\ next_url = 0
    /\ page_count = 0
    /\ all_articles = <<>>
    /\ fetch_result = [success |-> FALSE, articles |-> <<>>]
    /\ resolution = NoResolution
    /\ resolution_rerun = NoResolution
    /\ resolution2 = NoResolution

\* no payload of the crawl client is handled
ShapesIdle ==
    /\ payload = [kind |-> "none"]
    /\ handled = <<>>

\* no call of the id and title generators is modelled
GeneratorIdle ==
    /\ source_url = ""
    /\ generated = <<>>
    /\ ShapesIdle

\* no resolver run is modelled page by page
ListingIdle ==
    /\ listing = <<>>
    /\ scraped_input = <<>>
    /\ ResolverIdle

\* 'upload_progress' and 'failed_uploads' are created on first use with the
\* values below; a session without the keys behaves as one holding them.
InitSession ==
    /\ completed = 0
    /\ current_batch = 0
    /\ session_failed_uploads = <<>>

InitLocals ==
    /\ pc = "idle"
    /\ selected_articles = <<>>
    /\ batch_size = MinBatchSize
    /\ max_retries = MinRetries
    /\ resolved_articles = <<>>
    /\ successful_uploads = 0
    /\ failed_uploads = 0
    /\ upload_results = <<>>
    /\ start_batch = 0
    /\ start_article = 0
    /\ batch_idx = 0
    /\ article_idx = 0
    /\ retry = 0
    /\ last_error = None
    /\ result = NoResult
    /\ outcome = Ended("none")
    /\ hist = NoHist

Init ==
    /\ InitSession
    /\ InitLocals
    /\ remote_articles = <<>>
    /\ faults = 0
    /\ plan = 0
    /\ PollerIdle
    /\ ListingIdle
    /\ GeneratorIdle

\* position of the current article in resolved_articles, from 0
global_article_idx == batch_idx * batch_size + article_idx

\* cur_batches built from the selection as it was passed in
cur_batches_Unresolved == batches(selected_articles, batch_size)

\* batches of the running invocation and the batch being processed
cur_batches == batches(resolved_articles, batch_size)
cur_batch == cur_batches[batch_idx + 1]
cur_article == cur_batch[article_idx + 1]
\* len(batches)
num_batches == NumBatches(Len(resolved_articles), batch_size)

\* the locals of an invocation that is not running
NoLocals ==
    /\ batch_size' = MinBatchSize
    /\ max_retries' = MinRetries
    /\ resolved_articles' = <<>>
    /\ successful_uploads' = 0
    /\ failed_uploads' = 0
    /\ upload_results' = <<>>
    /\ start_batch' = 0
    /\ start_article' = 0
    /\ batch_idx' = 0
    /\ article_idx' = 0
    /\ retry' = 0
    /\ last_error' = None
    /\ result' = NoResult

\* the environment injects one more fault, within its budget; a scripted
\* environment (plan # 0) is not counted
Fault ==
    IF plan = 0 THEN faults < MaxFaults /\ faults' = faults + 1
    ELSE UNCHANGED faults

\* ------------------------------------------------------------------ callers
\* entry of upload_selected_articles_to_ada_robust
Begin(list, bs, mr) ==
    /\ pc = "idle"
    /\ list # <<>>
    /\ pc' = "resolve"
    /\ selected_articles' = list
    /\ batch_size' = bs
    /\ max_retries' = mr
    /\ outcome' = Ended("running")
    /\ hist' = NewHist(outcome.kind = "interrupted" /\ list = selected_articles)
    /\ UNCHANGED <<completed, current_batch, resolved_articles, countVars,
                   loopVars, retryVars, envVars, faults>>

\* main: the "Upload N Selected Articles to Ada" button
UploadSelected(list, bs, mr) ==
    /\ list \in SelectableLists
    /\ Begin(list, bs, mr)
    /\ UNCHANGED session_failed_uploads

\* main: the "Retry N Selected Articles" button
RetrySelected(list, bs, mr) ==
    /\ session_failed_uploads # <<>>
    /\ list \in Selections(session_failed_uploads)
    /\ session_failed_uploads' = <<>>
    /\ Begin(list, bs, mr)

\* the sidebar sliders "Batch Size" and "Max Retries per Article"
BatchSizes == MinBatchSize..MaxBatchSize
RetryCounts == MinRetries..MaxRetriesBound

UploadButton ==
    /\ pc = "idle"
    /\ \E list \in SelectableLists, bs \in BatchSizes, mr \in RetryCounts :
          UploadSelected(list, bs, mr)

RetryButton ==
    /\ pc = "idle"
    /\ \E list \in Selections(session_failed_uploads), bs \in BatchSizes, mr \in RetryCounts :
          RetrySelected(list, bs, mr)

\* main: the "Clear Failed List" button
ClearFailed ==
    /\ pc = "idle"
    /\ session_failed_uploads # <<>>
    /\ session_failed_uploads' = <<>>
    /\ UNCHANGED <<pc, completed, current_batch, argVars, resolved_articles,
                   countVars, loopVars, retryVars, outcome, envVars, faults, hist>>

\* --------------------------------- upload_selected_articles_to_ada_robust
\* Resolve with the resume point taken one article too early
Resolve_EarlyResume(res) ==
    /\ pc = "resolve"
    /\ res \in FetchResults(remote_articles)
    /\ ~ResolveRaises(res)
    /\ resolved_articles' = resolve_article_ids(selected_articles, res)[1]
    /\ successful_uploads' = 0
    /\ failed_uploads' = 0
    /\ upload_results' = <<>>
    /\ start_batch' = 0
    /\ start_article' = IF completed > 0 THEN completed - 1 ELSE 0
    /\ batch_idx' = 0
    /\ article_idx' = 0
    /\ pc' = "batch"
    /\ UNCHANGED <<sessionVars, argVars, retryVars, outcome, envVars, faults, hist>>

\* STEP 1: resolve_article_ids returns; batches and the resume point are set
Resolve(res) ==
    /\ pc = "resolve"
    /\ res \in FetchResults(remote_articles)
    /\ ~ResolveRaises(res)
    /\ resolved_articles' = resolve_article_ids(selected_articles, res)[1]
    /\ successful_uploads' = 0
    /\ failed_uploads' = 0
    /\ upload_results' = <<>>
    /\ start_batch' = current_batch
    /\ start_article' = completed
    /\ batch_idx' = current_batch
    /\ article_idx' = 0
    /\ pc' = "batch"
    /\ UNCHANGED <<sessionVars, argVars, retryVars, outcome, envVars, faults, hist>>

\* STEP 1 raises: the call is outside every try block of the uploader
ResolveException(res) ==
    /\ pc = "resolve"
    /\ res \in FetchResults(remote_articles)
    /\ ResolveRaises(res)
    /\ Fault
    /\ pc' = "idle"
    /\ outcome' = Ended("raised")
    /\ hist' = [NoHist EXCEPT !.excFree = FALSE]
    /\ NoLocals
    /\ UNCHANGED <<sessionVars, selected_articles, envVars>>

ResolveStep ==
    /\ pc = "resolve"
    /\ \E res \in FetchResults(remote_articles) : Resolve(res)

ResolveFails ==
    /\ pc = "resolve"
    /\ \E res \in FetchResults(remote_articles) : ResolveException(res)

\* EnterBatch storing the index of the batch after the one it enters
EnterBatch_NextBatch ==
    /\ pc = "batch"
    /\ batch_idx < num_batches
    /\ current_batch' = batch_idx + 1
    /\ article_idx' = 0
    /\ pc' = "article"
    /\ UNCHANGED <<completed, session_failed_uploads, argVars, resolved_articles,
                   countVars, start_batch, start_article, batch_idx, retryVars,
                   outcome, envVars, faults, hist>>

\* for batch_idx in range(start_batch, len(batches)): next batch
EnterBatch ==
    /\ pc = "batch"
    /\ batch_idx < num_batches
    /\ current_batch' = batch_idx
    /\ article_idx' = 0
    /\ pc' = "article"
    /\ UNCHANGED <<completed, session_failed_uploads, argVars, resolved_articles,
                   countVars, start_batch, start_article, batch_idx, retryVars,
                   outcome, envVars, faults, hist>>

\* an exception between the batch loop header and the inner try: caught by
\* "except Exception as overall_error", which skips the reset
OverallException ==
    /\ pc = "batch"
    /\ batch_idx < num_batches
    /\ Fault
    /\ current_batch' = batch_idx
    /\ pc' = "summary"
    /\ hist' = [hist EXCEPT !.excFree = FALSE]
    /\ UNCHANGED <<completed, session_failed_uploads, argVars, resolved_articles,
                   countVars, loopVars, retryVars, outcome, envVars>>

\* if global_article_idx < start_article: continue
SkipArticle ==
    /\ pc = "article"
    /\ article_idx < Len(cur_batch)
    /\ global_article_idx < start_article
    /\ article_idx' = article_idx + 1
    /\ UNCHANGED <<pc, sessionVars, argVars, resolved_articles, countVars,
                   start_batch, start_article, batch_idx, retryVars, outcome,
                   envVars, faults, hist>>

\* BeginArticle without the resume check
BeginArticle_NoSkip ==
    /\ pc = "article"
    /\ article_idx < Len(cur_batch)
    /\ retry' = 0
    /\ last_error' = None
    /\ result' = NoResult
    /\ pc' = "attempt"
    /\ hist' = ArticleHist
    /\ UNCHANGED <<sessionVars, argVars, resolved_articles, countVars, loopVars,
                   outcome, envVars, faults>>

\* progress display, then the call of upload_with_never_stop_logic
BeginArticle ==
    /\ pc = "article"
    /\ article_idx < Len(cur_batch)
    /\ global_article_idx >= start_article
    /\ retry' = 0
    /\ last_error' = None
    /\ result' = NoResult
    /\ pc' = "attempt"
    /\ hist' = ArticleHist
    /\ UNCHANGED <<sessionVars, argVars, resolved_articles, countVars, loopVars,
                   outcome, envVars, faults>>

\* EndBatch resting after the last batch as well
EndBatch_AlwaysRests ==
    /\ pc = "article"
    /\ article_idx = Len(cur_batch)
    /\ hist' = [hist EXCEPT !.rests = @ + 1]
    /\ batch_idx' = batch_idx + 1
    /\ pc' = "batch"
    /\ UNCHANGED <<sessionVars, argVars, resolved_articles, countVars,
                   start_batch, start_article, article_idx, retryVars, outcome,
                   envVars, faults>>

\* end of the article loop of a batch; rest unless it is the last batch
EndBatch ==
    /\ pc = "article"
    /\ article_idx = Len(cur_batch)
    /\ hist' = [hist EXCEPT !.rests =
                   IF batch_idx < num_batches - 1 THEN @ + 1 ELSE @]
    /\ batch_idx' = batch_idx + 1
    /\ pc' = "batch"
    /\ UNCHANGED <<sessionVars, argVars, resolved_articles, countVars,
                   start_batch, start_article, article_idx, retryVars, outcome,
                   envVars, faults>>

\* an exception inside the batch try but outside the article try (progress
\* display of an article, or the rest message): caught by
\* "except Exception as batch_error", which continues with the next batch
BatchException ==
    /\ pc = "article"
    /\ \/ article_idx < Len(cur_batch) /\ global_article_idx >= start_article
       \/ article_idx = Len(cur_batch) /\ batch_idx < num_batches - 1
    /\ Fault
    /\ batch_idx' = batch_idx + 1
    /\ pc' = "batch"
    /\ hist' = [hist EXCEPT !.excFree = FALSE]
    /\ UNCHANGED <<sessionVars, argVars, resolved_articles, countVars,
                   start_batch, start_article, article_idx, retryVars, outcome,
                   envVars>>

\* ------------------------------------------------ upload_with_never_stop_logic
\* plan of an environment that answers every request as it likes, with no
\* budget of faults
FreePlan == -1

\* the responses of the environment the uploader is run against
AttemptResponses == IF plan = FreePlan THEN Responses ELSE UploadResponses

\* the response the scripted environment gives to the current article
Planned(resp) ==
    \/ plan \in {0, FreePlan}
    \/ resp = IF global_article_idx + 1 = plan
              THEN [kind |-> "timeout", status |-> NoStatus]
              ELSE [kind |-> "http", status |-> 200]

\* the dict returned after a successful attempt
SuccessResult(r, n) ==
    [success |-> TRUE, error |-> None, retries |-> n, status_code |-> r.status_code]

\* FailureResult reporting the index of the last attempt
FailureResult_LastIndex(err, mr) ==
    [success |-> FALSE, error |-> err, retries |-> mr - 1, status_code |-> NoStatus]

\* the dict returned when the retry loop is exhausted
FailureResult(err, mr) ==
    [success |-> FALSE, error |-> err, retries |-> mr, status_code |-> NoStatus]

\* history: a first delivery attempt of the article at position g comes after
\* no attempt of an article at a higher position, in this invocation and in
\* the interrupted invocation it resumes
InOrder(g) ==
    g \in hist.attempted \cup hist.prevAttempted
        \/ \A i \in hist.attempted \cup hist.prevAttempted : i < g

\* range(max_retries) yielding one value more
HasNextRetry_Inclusive(r, mr) == r + 1 \in 0..mr

\* "for retry in range(max_retries)" has a value after r
HasNextRetry(r, mr) == r + 1 \in 0..(mr - 1)

\* backoff sleeping after the last attempt as well
backoff_AfterLast(r, mr) == <<Pow2(r)>>

\* the sleeps after the failed attempt r: time.sleep(2 ** retry) unless it
\* was the last one
backoff(r, mr) == IF r < mr - 1 THEN <<Pow2(r)>> ELSE <<>>

\* one iteration of "for retry in range(max_retries)": one delivery attempt
Attempt(resp) ==
    /\ pc = "attempt"
    /\ resp \in AttemptResponses
    /\ Planned(resp)
    /\ LET r == upload_article_to_ada(resp)
           g == global_article_idx
       IN  /\ hist' = [hist EXCEPT
                         !.attempted = @ \cup {g},
                         !.ordered = @ /\ InOrder(g),
                         !.delivered = IF r.success THEN @ \cup {g} ELSE @,
                         !.tries = @ + 1,
                         !.failures = IF r.success THEN @ ELSE @ + 1,
                         !.statuses = IF r.success THEN @ ELSE @ \cup {r.status_code},
                         !.waits = IF r.success THEN @ ELSE @ \o backoff(retry, max_retries),
                         !.last = [kind |-> resp.kind, status |-> resp.status,
                                   success |-> r.success]]
           /\ IF r.success
              THEN /\ result' = SuccessResult(r, retry)
                   /\ pc' = "record"
                   /\ UNCHANGED <<retry, last_error, faults>>
              ELSE /\ Fault
                   /\ last_error' = r.error
                   /\ IF HasNextRetry(retry, max_retries)
                      THEN /\ retry' = retry + 1
                           /\ UNCHANGED <<pc, result>>
                      ELSE /\ result' = FailureResult(r.error, max_retries)
                           /\ pc' = "record"
                           /\ UNCHANGED retry
    /\ UNCHANGED <<sessionVars, argVars, resolved_articles, countVars, loopVars,
                   outcome, envVars>>

AttemptStep ==
    /\ pc = "attempt"
    /\ \E resp \in AttemptResponses : Attempt(resp)

\* ------------------------------------------- back in the uploader: the result
\* the copy of the article stored in failed_uploads
FailedArticle(article, err) == [article EXCEPT !.last_error = err]

\* the entry appended to upload_results
UploadOutcome(article, res) ==
    [article_name |-> article.name, article_id |-> article.id,
     success |-> res.success, status_code |-> res.status_code,
     error |-> res.error, retries |-> res.retries]

\* Record marking progress with the position inside the batch
Record_BatchLocal ==
    /\ pc = "record"
    /\ IF result.success
       THEN /\ successful_uploads' = successful_uploads + 1
            /\ UNCHANGED <<failed_uploads, session_failed_uploads>>
       ELSE /\ failed_uploads' = failed_uploads + 1
            /\ session_failed_uploads' =
                  Append(session_failed_uploads, FailedArticle(cur_article, result.error))
            /\ UNCHANGED successful_uploads
    /\ upload_results' = Append(upload_results, UploadOutcome(cur_article, result))
    /\ completed' = article_idx + 1
    /\ article_idx' = article_idx + 1
    /\ pc' = "article"
    /\ UNCHANGED <<current_batch, argVars, resolved_articles, start_batch,
                   start_article, batch_idx, retryVars, outcome, envVars, faults,
                   hist>>

\* counters, failed list, upload_results and the progress mark of one article
Record ==
    /\ pc = "record"
    /\ IF result.success
       THEN /\ successful_uploads' = successful_uploads + 1
            /\ UNCHANGED <<failed_uploads, session_failed_uploads>>
       ELSE /\ failed_uploads' = failed_uploads + 1
            /\ session_failed_uploads' =
                  Append(session_failed_uploads, FailedArticle(cur_article, result.error))
            /\ UNCHANGED successful_uploads
    /\ upload_results' = Append(upload_results, UploadOutcome(cur_article, result))
    /\ completed' = global_article_idx + 1
    /\ article_idx' = article_idx + 1
    /\ pc' = "article"
    /\ UNCHANGED <<current_batch, argVars, resolved_articles, start_batch,
                   start_article, batch_idx, retryVars, outcome, envVars, faults,
                   hist>>

\* an exception in the article try after the counter was incremented (the
\* st.success / st.error message): "except Exception as article_error"
ArticleException ==
    /\ pc = "record"
    /\ Fault
    /\ successful_uploads' = successful_uploads + (IF result.success THEN 1 ELSE 0)
    /\ failed_uploads' = failed_uploads + (IF result.success THEN 1 ELSE 2)
    /\ session_failed_uploads' =
          Append(session_failed_uploads, FailedArticle(cur_article, "str(article_error)"))
    /\ upload_results' = Append(upload_results,
          UploadOutcome(cur_article,
              [success |-> FALSE, status_code |-> NoStatus,
               error |-> "str(article_error)", retries |-> 0]))
    /\ article_idx' = article_idx + 1
    /\ pc' = "article"
    /\ hist' = [hist EXCEPT !.excFree = FALSE]
    /\ UNCHANGED <<completed, current_batch, argVars, resolved_articles,
                   start_batch, start_article, batch_idx, retryVars, outcome,
                   envVars>>

\* Finish resetting the completed count only
Finish_KeepBatch ==
    /\ pc = "batch"
    /\ batch_idx >= num_batches
    /\ completed' = 0
    /\ pc' = "summary"
    /\ UNCHANGED <<current_batch, session_failed_uploads, argVars, resolved_articles,
                   countVars, loopVars, retryVars, outcome, envVars, faults, hist>>

\* the batch loop is exhausted: reset of the progress tracking
Finish ==
    /\ pc = "batch"
    /\ batch_idx >= num_batches
    /\ completed' = 0
    /\ current_batch' = 0
    /\ pc' = "summary"
    /\ UNCHANGED <<session_failed_uploads, argVars, resolved_articles, countVars,
                   loopVars, retryVars, outcome, envVars, faults, hist>>

\* final summary and "return successful_uploads, failed_uploads"
Return ==
    /\ pc = "summary"
    /\ outcome' = [kind |-> "returned", successCount |-> successful_uploads,
                   failCount |-> failed_uploads]
    /\ pc' = "idle"
    /\ hist' = [NoHist EXCEPT !.excFree = hist.excFree]
    /\ NoLocals
    /\ UNCHANGED <<sessionVars, selected_articles, envVars, faults>>

\* the script run is stopped inside a st.* call; none is made between the
\* attempts of one article
Interrupt ==
    /\ pc \in {"resolve", "batch", "article", "record", "summary"}
    /\ pc' = "idle"
    /\ outcome' = Ended("interrupted")
    /\ NoLocals
    /\ hist' = [NoHist EXCEPT !.excFree = hist.excFree,
                              !.fresh = hist.fresh,
                              !.delivered = hist.delivered,
                              !.attempted = hist.attempted]
    /\ UNCHANGED <<sessionVars, selected_articles, envVars, faults>>

\* Interrupt, with the position of the "Batch Size" slider kept in the history
InterruptSteady ==
    /\ pc \in {"resolve", "batch", "article", "record", "summary"}
    /\ pc' = "idle"
    /\ outcome' = Ended("interrupted")
    /\ NoLocals
    /\ hist' = [NoHist EXCEPT !.excFree = hist.excFree,
                              !.fresh = hist.fresh,
                              !.delivered = hist.delivered,
                              !.attempted = hist.attempted,
                              !.size = batch_size]
    /\ UNCHANGED <<sessionVars, selected_articles, envVars, faults>>

\* main: the upload button, the "Batch Size" slider left where it was when the
\* interrupted upload of the same list was started
SteadyUpload ==
    /\ pc = "idle"
    /\ \E list \in SelectableLists, bs \in BatchSizes, mr \in RetryCounts :
          /\ (outcome.kind = "interrupted" /\ list = selected_articles) => bs = hist.size
          /\ UploadSelected(list, bs, mr)

\* --------------------------------------------------------- specification

Next ==
    \/ UploadButton
    \/ RetryButton
    \/ ClearFailed
    \/ ResolveStep
    \/ ResolveFails
    \/ EnterBatch
    \/ OverallException
    \/ SkipArticle
    \/ BeginArticle
    \/ EndBatch
    \/ BatchException
    \/ AttemptStep
    \/ Record
    \/ ArticleException
    \/ Finish
    \/ Return
    \/ Interrupt

Spec == Init /\ [][Next]_vars

\* uploads whose batch size is not changed between an interruption and the
\* resumption
NextSteady ==
    \/ SteadyUpload
    \/ ResolveStep
    \/ ResolveFails
    \/ EnterBatch
    \/ OverallException
    \/ SkipArticle
    \/ BeginArticle
    \/ EndBatch
    \/ BatchException
    \/ AttemptStep
    \/ Record
    \/ ArticleException
    \/ Finish
    \/ Return
    \/ InterruptSteady

SpecSteady == Init /\ [][NextSteady]_vars


\* ------------------------------------------- scenario: one failing article
\* A fresh session, one uninterrupted invocation without unexpected
\* exceptions; every attempt for article number plan times out and every
\* other attempt succeeds.
ScenarioLists == {[i \in 1..n |-> format_for_ada_upload(i)] : n \in 1..ScenarioArticles}

InitScenario ==
    /\ InitSession
    /\ InitLocals
    /\ remote_articles \in {<<>>, <<[name |-> 1, id |-> RemoteId(1)]>>}
    /\ faults = 0
    /\ plan \in 1..ScenarioArticles
    /\ PollerIdle
    /\ ListingIdle
    /\ GeneratorIdle

ScenarioUpload ==
    /\ pc = "idle"
    /\ outcome.kind = "none"
    /\ \E list \in ScenarioLists, bs \in MinBatchSize..ScenarioBatch,
          mr \in MinRetries..ScenarioRetries :
          /\ plan <= Len(list)
          /\ Begin(list, bs, mr)
          /\ UNCHANGED session_failed_uploads

NextScenario ==
    \/ ScenarioUpload
    \/ ResolveStep
    \/ EnterBatch
    \/ BeginArticle
    \/ EndBatch
    \/ AttemptStep
    \/ Record
    \/ Finish
    \/ Return

SpecScenario == InitScenario /\ [][NextScenario]_vars

\* ------------------------------------------------------------------ claims
\* the running invocation resumes an interrupted invocation over the same
\* selected list, and has set its resume point
Resuming == hist.resumes /\ pc \notin {"idle", "resolve"}

\* C1: in an invocation that resumes an interrupted one over the same list,
\* no delivery attempt is made for an article below the completedCount the
\* interruption left
C1_ResumeSoundness ==
    Resuming => \A i \in hist.attempted : i >= hist.left

\* a resumed invocation that found a completedCount above 0 has attempted an
\* article
C1_Witness ==
    Resuming /\ hist.left > 0 /\ hist.attempted # {}

\* C2: when an invocation that resumes an interrupted one over the same list
\* has run its batch loop to the end, no unexpected exception raised, every
\* article at index >= completedCount has been attempted, whatever its
\* batch size
C2_ResumeCompleteness ==
    (Resuming /\ pc = "summary" /\ hist.excFree)
        => \A i \in hist.left..(Len(resolved_articles) - 1) : i \in hist.attempted

\* C3 as stated: the resuming invocation delivers no article whose delivery
\* succeeded in the interrupted invocation
C3_NoReupload ==
    Resuming => hist.delivered \cap hist.prevDelivered = {}

\* C3 amended: the resuming invocation delivers no article that was delivered
\* and marked completed (index below completedCount) in the interrupted one
C3_NoReuploadOfMarked ==
    Resuming => \A i \in hist.delivered \cap hist.prevDelivered : i >= hist.left

\* a resuming invocation has delivered an article while an article delivered
\* before the interruption lies below the completedCount it left
C3_Witness ==
    /\ Resuming
    /\ hist.delivered # {}
    /\ \E i \in hist.prevDelivered : i < hist.left

\* C4: an invocation that returns without an unexpected exception returns
\* counts that add up to the number of selected articles
C4_CountsAddUp ==
    (pc = "idle" /\ outcome.kind = "returned" /\ hist.excFree)
        => outcome.successCount + outcome.failCount = Len(selected_articles)

\* C5: when the batch loop of an invocation has run to the end without an
\* unexpected exception, every article at or after the resume index has been
\* attempted (the final state of the progress claim)
C5_ForwardProgress ==
    (pc = "summary" /\ hist.excFree)
        => \A i \in start_article..(Len(resolved_articles) - 1) : i \in hist.attempted

\* C6: no invocation ends by raising an exception to its caller
C6_NoExceptionEscapes ==
    outcome.kind # "raised"

\* C7: when no unexpected exception has been raised and the invocations over
\* the selected list started from initial progress tracking, every first
\* delivery attempt of an article comes after no attempt of an article at a
\* higher index, within the invocation and across the interrupted invocation
\* it resumes
C7_DeliveryOrder ==
    (hist.excFree /\ hist.fresh) => hist.ordered

\* C8: in the scenario, once the batch loop is over the counts are n-1 and 1,
\* failed_uploads holds exactly the failing article, its outcome records
\* retries = max_retries, and 12 articles in batches of 10 make two batches
\* (10 + 2) with one rest; the returned pair is (n-1, 1)
C8_Scenario ==
    /\ pc = "summary" =>
          /\ successful_uploads = Len(selected_articles) - 1
          /\ failed_uploads = 1
          /\ session_failed_uploads =
                <<FailedArticle(resolved_articles[plan], "Request timeout (30s)")>>
          /\ Len(upload_results) = Len(selected_articles)
          /\ \A i \in 1..Len(upload_results) :
                /\ upload_results[i].article_id = resolved_articles[i].id
                /\ upload_results[i].success = (i # plan)
                /\ upload_results[i].retries = IF i = plan THEN max_retries ELSE 0
          /\ (Len(selected_articles) = 12 /\ batch_size = 10) =>
                /\ Len(cur_batches) = 2
                /\ Len(cur_batches[1]) = 10
                /\ Len(cur_batches[2]) = 2
                /\ hist.rests = 1
    /\ outcome.kind = "returned" =>
          /\ outcome.successCount = Len(selected_articles) - 1
          /\ outcome.failCount = 1

\* 12 articles, batch size 10, 3 retries, article #5 failing: loop is over
C8_Witness ==
    /\ pc = "summary"
    /\ Len(selected_articles) = 12
    /\ batch_size = 10
    /\ max_retries = 3
    /\ plan = 5

\* C9: while an invocation runs, no unexpected exception raised so far,
\* completedCount does not exceed the number of articles of the list being
\* uploaded
C9_CompletedWithinList ==
    (pc # "idle" /\ hist.excFree) => completed <= Len(selected_articles)

\* C10: completedCount never decreases in a step, except in the reset after
\* the batch loop
C10_CompletedMonotone ==
    [][completed' >= completed \/ (pc = "batch" /\ pc' = "summary" /\ completed' = 0)]_vars

\* a resumed invocation has advanced completedCount beyond the one it found
C10_Witness ==
    Resuming /\ hist.left > 0 /\ completed > hist.left

\* --------------------------------- a session that already holds failed uploads
\* number of failed articles an earlier upload left in the session
MaxStored == 2

\* st.session_state['failed_uploads'] after the first n articles failed every
\* attempt with a timeout in an earlier, completed upload
StoredFailures(n) ==
    [i \in 1..n |-> FailedArticle(format_for_ada_upload(i), "Request timeout (30s)")]

InitWithFailures ==
    /\ completed = 0
    /\ current_batch = 0
    /\ session_failed_uploads \in {StoredFailures(n) : n \in 0..MaxStored}
    /\ InitLocals
    /\ remote_articles = <<>>
    /\ faults = 0
    /\ plan = 0
    /\ PollerIdle
    /\ ListingIdle
    /\ GeneratorIdle

SpecWithFailures == InitWithFailures /\ [][Next]_vars

\* C11: an article leaves failed_uploads only in a step that starts a retry
\* whose selection holds that article, or in the "Clear Failed List" step
C11_FailedLeavesOnlyByOwnRetryOrClear ==
    [][\A a \in Range(session_failed_uploads) :
          \/ a \in Range(session_failed_uploads')
          \/ pc = "idle" /\ pc' = "resolve" /\ a \in Range(selected_articles')
          \/ pc = "idle" /\ pc' = "idle" /\ session_failed_uploads' = <<>>]_vars

InitRemote ==
    /\ InitSession
    /\ InitLocals
    /\ remote_articles = <<[name |-> 1, id |-> RemoteId(1)]>>
    /\ faults = 0
    /\ plan = 0
    /\ PollerIdle
    /\ ListingIdle
    /\ GeneratorIdle

NextRemote ==
    \/ UploadButton
    \/ ResolveStep
    \/ EnterBatch
    \/ SkipArticle
    \/ BeginArticle
    \/ EndBatch
    \/ AttemptStep
    \/ Record
    \/ Finish
    \/ Return
    \/ Interrupt

SpecRemote == InitRemote /\ [][NextRemote]_vars

\* the lists resolve_article_ids can return for the selection
ResolverOutputs ==
    {resolve_article_ids(selected_articles, res)[1] :
        res \in {r \in FetchResults(remote_articles) : ~ResolveRaises(r)}}

\* C13: while the resolver runs the invocation has made no delivery attempt
\* and recorded no outcome; after it, the list the uploader works on is a
\* list the resolver returns for the selection, and every recorded outcome
\* carries the name and id of an article of that list
C13_ResolverFirst ==
    /\ pc = "resolve" => hist.attempted = {} /\ upload_results = <<>>
    /\ pc \in {"batch", "article", "attempt", "record", "summary"} =>
          /\ resolved_articles \in ResolverOutputs
          /\ \A i \in 1..Len(upload_results) :
                \E j \in 1..Len(resolved_articles) :
                   /\ resolved_articles[j].name = upload_results[i].article_name
                   /\ resolved_articles[j].id = upload_results[i].article_id

\* a resumed invocation has recorded a delivery under the id the resolver
\* took from the knowledge source
C13_Witness ==
    /\ hist.resumes
    /\ \E i \in 1..Len(upload_results) : upload_results[i].article_id = RemoteId(1)

\* ------------------------------------------------------------ poll_crawl_status
\* most pages a crawl job reports
MaxPages == 2
\* max_attempts = 60
max_attempts == 60

\* what the poller leaves alone: the uploader, its environment and the resolver
uploaderVars == <<pc, sessionVars, argVars, resolved_articles, countVars, loopVars,
                  retryVars, outcome, remote_articles, faults, plan, hist, listingVars,
                  genVars>>

\* the job payload of a crawl that completed with n pages
CrawlPayload(n) ==
    [status |-> "completed", completed |-> n, total |-> n, data |-> [i \in 1..n |-> i]]

\* what firecrawl.get_crawl_status returns: a running job with its counts, a
\* job in a state the poller does not name, a response without a status or of
\* a shape the poller cannot read (status None), a failed job, a completed
\* job with its pages
StatusResponses ==
    { [status |-> "scraping", completed |-> c, total |-> t, data |-> <<>>] :
          c \in 0..MaxPages, t \in 0..MaxPages }
        \cup
    { [status |-> "pending", completed |-> 0, total |-> MaxPages, data |-> <<>>],
      [status |-> None, completed |-> 0, total |-> 0, data |-> <<>>],
      [status |-> "failed", completed |-> 0, total |-> MaxPages, data |-> <<>>] }
        \cup {CrawlPayload(n) : n \in 0..MaxPages}

\* progress without the cap
progress_Uncapped(status_response) ==
    CASE status_response.status = "scraping" ->
             IF status_response.total > 0
             THEN <<status_response.completed, status_response.total>>
             ELSE <<1, 10>>
      [] status_response.status = "completed" -> <<1, 1>>
      [] status_response.status = "failed" -> poll_hist.progress
      [] OTHER -> <<1, 10>>

\* the value given to progress_bar.progress for a status response:
\* min(completed / total, 0.9) or 0.1 while scraping, 1.0 on completed,
\* none on failed, 0.1 otherwise
progress(status_response) ==
    CASE status_response.status = "scraping" ->
             IF status_response.total > 0
             THEN IF 10 * status_response.completed <= 9 * status_response.total
                  THEN <<status_response.completed, status_response.total>>
                  ELSE <<9, 10>>
             ELSE <<1, 10>>
      [] status_response.status = "completed" -> <<1, 1>>
      [] status_response.status = "failed" -> poll_hist.progress
      [] OTHER -> <<1, 10>>

\* the history after a query that returned status_response
Queried(status_response, ended) ==
    [status |-> status_response.status, ended |-> ended,
     queries |-> poll_hist.queries + 1, completed |-> status_response.completed,
     total |-> status_response.total, progress |-> progress(status_response)]

\* the value of the return statement the poll ends with
poll_return(ended, status_response) ==
    IF ended = "completed" THEN status_response ELSE NoPayload

\* main, "Start Crawling": the crawl job is started and the poll begins
StartCrawl ==
    /\ poll_pc = "idle"
    /\ poll_pc' = "loop"
    /\ attempt' = 0
    /\ final_result' = NoPayload
    /\ crawl_message' = None
    /\ poll_hist' = NoPollHist
    /\ UNCHANGED <<crawl_results, uploaderVars>>

\* QueryRaises with the attempt counted after the query
QueryRaises_NoCount ==
    /\ poll_pc = "loop"
    /\ attempt < max_attempts
    /\ poll_hist' = [poll_hist EXCEPT !.status = "exception", !.queries = @ + 1]
    /\ UNCHANGED <<poll_pc, attempt, final_result, crawl_results, crawl_message,
                   uploaderVars>>

\* QueryRaises giving up the poll
QueryRaises_Aborts ==
    /\ poll_pc = "loop"
    /\ attempt < max_attempts
    /\ attempt' = attempt + 1
    /\ poll_pc' = "done"
    /\ final_result' = NoPayload
    /\ poll_hist' = [poll_hist EXCEPT !.status = "exception", !.queries = @ + 1]
    /\ UNCHANGED <<crawl_results, crawl_message, uploaderVars>>

\* one pass of the while loop in which get_crawl_status raises
QueryRaises ==
    /\ poll_pc = "loop"
    /\ attempt < max_attempts
    /\ attempt' = attempt + 1
    /\ poll_hist' = [poll_hist EXCEPT !.status = "exception", !.queries = @ + 1]
    /\ UNCHANGED <<poll_pc, final_result, crawl_results, crawl_message, uploaderVars>>

\* Query going on with the loop after a failed status
Query_FailedGoesOn(status_response) ==
    /\ poll_pc = "loop"
    /\ attempt < max_attempts
    /\ attempt' = attempt + 1
    /\ IF status_response.status = "completed"
       THEN /\ poll_pc' = "done"
            /\ final_result' = poll_return("completed", status_response)
            /\ poll_hist' = Queried(status_response, "completed")
       ELSE /\ poll_hist' = Queried(status_response, "none")
            /\ UNCHANGED <<poll_pc, final_result>>
    /\ UNCHANGED <<crawl_results, crawl_message, uploaderVars>>

\* one pass of the while loop in which get_crawl_status returns
Query(status_response) ==
    /\ poll_pc = "loop"
    /\ attempt < max_attempts
    /\ attempt' = attempt + 1
    /\ IF status_response.status = "completed"
       THEN /\ poll_pc' = "done"
            /\ final_result' = poll_return("completed", status_response)
            /\ poll_hist' = Queried(status_response, "completed")
       ELSE IF status_response.status = "failed"
       THEN /\ poll_pc' = "done"
            /\ final_result' = poll_return("failed", status_response)
            /\ poll_hist' = Queried(status_response, "failed")
       ELSE /\ poll_hist' = Queried(status_response, "none")
            /\ UNCHANGED <<poll_pc, final_result>>
    /\ UNCHANGED <<crawl_results, crawl_message, uploaderVars>>

QueryStep ==
    /\ poll_pc = "loop"
    /\ \E status_response \in StatusResponses : Query(status_response)

\* the while condition fails: "Max polling attempts reached"
PollTimeout ==
    /\ poll_pc = "loop"
    /\ attempt >= max_attempts
    /\ poll_pc' = "done"
    /\ final_result' = poll_return("timeout", NoPayload)
    /\ poll_hist' = [poll_hist EXCEPT !.ended = "timeout"]
    /\ UNCHANGED <<attempt, crawl_results, crawl_message, uploaderVars>>

\* main, step 4: "if final_result:" shows and stores the results, else an error
ShowCrawlResults ==
    /\ poll_pc = "done"
    /\ poll_pc' = "idle"
    /\ IF final_result # NoPayload
       THEN /\ crawl_results' = final_result
            /\ crawl_message' = "Results"
       ELSE /\ crawl_message' = "Failed to get crawl results"
            /\ UNCHANGED crawl_results
    /\ UNCHANGED <<attempt, final_result, poll_hist, uploaderVars>>

InitPoll ==
    /\ InitSession
    /\ InitLocals
    /\ remote_articles = <<>>
    /\ faults = 0
    /\ plan = 0
    /\ PollerIdle
    /\ ListingIdle
    /\ GeneratorIdle

PollStep ==
    \/ QueryStep
    \/ QueryRaises
    \/ PollTimeout

NextPoll ==
    \/ StartCrawl
    \/ PollStep
    \/ ShowCrawlResults

SpecPoll == InitPoll /\ [][NextPoll]_vars

\* every status query returns or raises, and the loop goes on after it
SpecPollLive == SpecPoll /\ WF_vars(PollStep)

C15_PollerTerminates ==
    /\ [](attempt <= max_attempts /\ poll_hist.queries <= max_attempts)
    /\ [](poll_pc = "done" /\ poll_hist.status \notin {"completed", "failed"} =>
            /\ poll_hist.ended = "timeout"
            /\ poll_hist.queries = max_attempts
            /\ final_result = NoPayload)
    /\ (poll_pc = "loop" ~> poll_pc = "done")

\* a poll has ended in the timeout state and its last query raised
C15_Witness ==
    poll_pc = "done" /\ poll_hist.ended = "timeout" /\ poll_hist.status = "exception"

\* C16: the value the poll returns when it ends in the timeout state differs
\* from the value it returns when the job reports failed
C16_TimeoutDistinguishable ==
    poll_pc = "done" /\ poll_hist.ended = "timeout"
        => final_result # poll_return("failed", NoPayload)

\* ------------------------- resolve_article_ids / fetch_all_existing_articles
\* most pages of a listing, and most articles on one page
MaxListingPages == 2
MaxPageItems == 1

\* what the resolver leaves alone
nonListingVars == <<pc, sessionVars, argVars, resolved_articles, countVars, loopVars,
                    retryVars, outcome, remote_articles, faults, plan, hist, pollVars,
                    genVars>>

\* what the runs of resolve_article_ids returned
resolutions == <<resolution, resolution_rerun, resolution2>>

\* entries of a listing: two ids for one name, a second name, an entry without
\* a name, an entry without an id and an entry whose name is not a string
RemoteItems ==
    { [name |-> 1, id |-> RemoteId(1)], [name |-> 1, id |-> RemoteId(2)],
      [name |-> 2, id |-> RemoteId(2)], [name |-> Falsy, id |-> RemoteId(1)],
      [name |-> 1, id |-> Falsy], [name |-> Unhashable, id |-> RemoteId(0)] }

\* sequences over S of length at most n
SeqUpTo(S, n) == UNION {[1..k -> S] : k \in 0..n}

\* what one page request does: a page of articles, a non-success HTTP status,
\* a timeout, a connection error, another exception
PageFailures == {"http_error", "timeout", "conn", "other"}
ListingPages ==
    {[kind |-> "ok", items |-> items] : items \in SeqUpTo(RemoteItems, MaxPageItems)}
        \cup {[kind |-> k, items |-> <<>>] : k \in PageFailures}

\* chains of pages; every page but the last carries a next cursor
ListingChains == UNION {[1..n -> ListingPages] : n \in 1..MaxListingPages}

\* the items of the first n pages, in page order
RECURSIVE PageItems(_, _)
PageItems(pages, n) ==
    IF n = 0 THEN <<>> ELSE PageItems(pages, n - 1) \o pages[n].items

\* resolve_article_ids is called: the fetch starts with the first page
StartResolve ==
    /\ fetch_pc = "idle"
    /\ fetch_pc' = "fetching"
    /\ next_url' = 1
    /\ page_count' = 0
    /\ all_articles' = <<>>
    /\ UNCHANGED <<listing, scraped_input, fetch_result, resolutions, nonListingVars>>

\* FetchPage returning the pages read so far as a success when a request fails
FetchPage_PartialOnError ==
    /\ fetch_pc = "fetching"
    /\ next_url # 0
    /\ page_count' = page_count + 1
    /\ LET page == listing[next_url]
       IN  IF page.kind = "ok"
           THEN /\ all_articles' = all_articles \o page.items
                /\ next_url' = IF next_url < Len(listing) THEN next_url + 1 ELSE 0
                /\ UNCHANGED <<fetch_pc, fetch_result>>
           ELSE /\ fetch_result' = [success |-> TRUE, articles |-> all_articles]
                /\ fetch_pc' = "fetched"
                /\ UNCHANGED <<next_url, all_articles>>
    /\ UNCHANGED <<listing, scraped_input, resolutions, nonListingVars>>

\* FetchPage never following the cursor of a page
FetchPage_NoCursor ==
    /\ fetch_pc = "fetching"
    /\ next_url # 0
    /\ page_count' = page_count + 1
    /\ LET page == listing[next_url]
       IN  IF page.kind = "ok"
           THEN /\ all_articles' = all_articles \o page.items
                /\ next_url' = 0
                /\ UNCHANGED <<fetch_pc, fetch_result>>
           ELSE /\ fetch_result' = [success |-> FALSE,
                                   articles |-> IF page.kind = "http_error"
                                                THEN <<>> ELSE all_articles]
                /\ fetch_pc' = "fetched"
                /\ UNCHANGED <<next_url, all_articles>>
    /\ UNCHANGED <<listing, scraped_input, resolutions, nonListingVars>>

\* one pass of "while next_url": one page request
FetchPage ==
    /\ fetch_pc = "fetching"
    /\ next_url # 0
    /\ page_count' = page_count + 1
    /\ LET page == listing[next_url]
       IN  IF page.kind = "ok"
           THEN /\ all_articles' = all_articles \o page.items
                /\ next_url' = IF next_url < Len(listing) THEN next_url + 1 ELSE 0
                /\ UNCHANGED <<fetch_pc, fetch_result>>
           ELSE /\ fetch_result' = [success |-> FALSE,
                                   articles |-> IF page.kind = "http_error"
                                                THEN <<>> ELSE all_articles]
                /\ fetch_pc' = "fetched"
                /\ UNCHANGED <<next_url, all_articles>>
    /\ UNCHANGED <<listing, scraped_input, resolutions, nonListingVars>>

\* next_url is None: the fetch returns all it read
FetchReturn ==
    /\ fetch_pc = "fetching"
    /\ next_url = 0
    /\ fetch_result' = [success |-> TRUE, articles |-> all_articles]
    /\ fetch_pc' = "fetched"
    /\ UNCHANGED <<listing, scraped_input, next_url, page_count, all_articles,
                   resolutions, nonListingVars>>

\* the three values resolve_article_ids returns after the fetch result res;
\* copies: the articles returned are new objects (article.copy(), line 235),
\* not the objects of the list it was given (return scraped_articles, line 210)
Resolution(r, res) ==
    [updated |-> r[1], updates_count |-> r[2], new_articles_count |-> r[3],
     copies |-> res.success]

\* ResolveIds writing the remote ids into the articles it was given
ResolveIds_InPlace ==
    /\ fetch_pc = "fetched"
    /\ ~ResolveRaises(fetch_result)
    /\ resolution' = [Resolution(resolve_article_ids(scraped_input, fetch_result),
                                 fetch_result) EXCEPT !.copies = FALSE]
    /\ scraped_input' = resolution'.updated
    /\ fetch_pc' = "resolved"
    /\ UNCHANGED <<listing, next_url, page_count, all_articles,
                   fetch_result, resolution_rerun, resolution2, nonListingVars>>

\* the rest of resolve_article_ids, up to its return
ResolveIds ==
    /\ fetch_pc = "fetched"
    /\ ~ResolveRaises(fetch_result)
    /\ resolution' = Resolution(resolve_article_ids(scraped_input, fetch_result), fetch_result)
    /\ fetch_pc' = "resolved"
    /\ UNCHANGED <<listing, scraped_input, next_url, page_count, all_articles,
                   fetch_result, resolution_rerun, resolution2, nonListingVars>>

\* building the map raises: resolve_article_ids returns nothing
ResolveIdsRaises ==
    /\ fetch_pc = "fetched"
    /\ ResolveRaises(fetch_result)
    /\ fetch_pc' = "raised"
    /\ UNCHANGED <<listing, scraped_input, next_url, page_count, all_articles,
                   fetch_result, resolutions, nonListingVars>>

\* the next upload of the same articles resolves them again, the knowledge
\* source unchanged
ResolveRerun ==
    /\ fetch_pc = "resolved"
    /\ resolution_rerun' = Resolution(resolve_article_ids(scraped_input, fetch_result), fetch_result)
    /\ fetch_pc' = "rerun"
    /\ UNCHANGED <<listing, scraped_input, next_url, page_count, all_articles,
                   fetch_result, resolution, resolution2, nonListingVars>>

\* an upload of articles that were resolved before (a retry of failed ones)
\* resolves the resolver's own output, the knowledge source unchanged
ResolveAgain ==
    /\ fetch_pc = "rerun"
    /\ resolution2' = Resolution(resolve_article_ids(resolution.updated, fetch_result), fetch_result)
    /\ fetch_pc' = "again"
    /\ UNCHANGED <<listing, scraped_input, next_url, page_count, all_articles,
                   fetch_result, resolution, resolution_rerun, nonListingVars>>

InitListing ==
    /\ InitSession
    /\ InitLocals
    /\ remote_articles = <<>>
    /\ faults = 0
    /\ plan = 0
    /\ PollerIdle
    /\ GeneratorIdle
    /\ listing \in ListingChains
    /\ scraped_input \in SelectableLists
    /\ ResolverIdle

NextListing ==
    \/ StartResolve
    \/ FetchPage
    \/ FetchReturn
    \/ ResolveIds
    \/ ResolveIdsRaises
    \/ ResolveRerun
    \/ ResolveAgain

SpecListing == InitListing /\ [][NextListing]_vars

\* fetch_all_existing_articles alone, called for one article
InitPagination ==
    /\ InitListing
    /\ scraped_input = SubSeq(ada_formatted_data, 1, 1)

NextPagination ==
    \/ StartResolve
    \/ FetchPage
    \/ FetchReturn

SpecPagination == InitPagination /\ [][NextPagination]_vars

\* every page request returns or raises
SpecPaginationLive == SpecPagination /\ WF_vars(FetchPage) /\ WF_vars(FetchReturn)

\* resolve_article_ids has returned
Resolved == fetch_pc \in {"resolved", "rerun", "again"}

\* the name is a key of the name-to-id map built from the articles arts
IsKey(name, arts) ==
    \E k \in 1..Len(arts) : arts[k].name = name /\ name # Falsy /\ arts[k].id # Falsy

\* the id the map holds for a key: that of the last article carrying the name
MappedId(name, arts) ==
    LET K == {k \in 1..Len(arts) : arts[k].name = name /\ arts[k].id # Falsy}
    IN  arts[CHOOSE k \in K : \A j \in K : j <= k].id

\* C17: when the fetch has succeeded and resolve_article_ids has returned, the
\* output has one article per input article in input order, with the name kept;
\* its id is the mapped remote id when the name is a key of the map and the
\* input's id otherwise; updates_count counts the inputs whose name is a key
\* and new_articles_count the others
C17_ResolveCorrect ==
    (Resolved /\ fetch_result.success) =>
        LET arts == fetch_result.articles
            n == Len(scraped_input)
        IN  /\ Len(resolution.updated) = n
            /\ \A i \in 1..n :
                  /\ resolution.updated[i].name = scraped_input[i].name
                  /\ resolution.updated[i].id =
                        IF IsKey(scraped_input[i].name, arts)
                        THEN MappedId(scraped_input[i].name, arts)
                        ELSE scraped_input[i].id
            /\ resolution.updates_count =
                  Cardinality({i \in 1..n : IsKey(scraped_input[i].name, arts)})
            /\ resolution.new_articles_count =
                  Cardinality({i \in 1..n : ~IsKey(scraped_input[i].name, arts)})

\* resolve_article_ids has returned for a listing that carries one name twice
\* with different ids, with an update and a create among the inputs
C17_Witness ==
    /\ fetch_pc = "resolved"
    /\ fetch_result.success
    /\ \E j, k \in 1..Len(fetch_result.articles) :
          /\ j < k
          /\ fetch_result.articles[j].name = fetch_result.articles[k].name
          /\ fetch_result.articles[j].id # fetch_result.articles[k].id
          /\ fetch_result.articles[j].id # Falsy
          /\ fetch_result.articles[k].id # Falsy
    /\ resolution.updates_count > 0
    /\ resolution.new_articles_count > 0

\* a page request of the fetch has failed
PageRequestFailed == \E i \in 1..page_count : listing[i].kind # "ok"

\* C18: once a page request of the fetch has failed, on the first page or on a
\* later one, resolve_article_ids does not raise, and what it returns is the
\* input articles with their ids unchanged, zero updates, and nothing taken
\* from the pages read before the failure
C18_FetchFailureDegrades ==
    PageRequestFailed =>
        /\ fetch_pc # "raised"
        /\ fetch_pc # "fetching"
        /\ ~fetch_result.success
        /\ Resolved =>
              /\ resolution.updated = scraped_input
              /\ resolution.updates_count = 0

\* the first page was read and named an input article, the second request
\* failed, and resolve_article_ids has returned
C18_Witness ==
    /\ fetch_pc = "resolved"
    /\ page_count = 2
    /\ listing[1].kind = "ok"
    /\ listing[2].kind # "ok"
    /\ \E k \in 1..Len(listing[1].items) : \E i \in 1..Len(scraped_input) :
          /\ listing[1].items[k].name = scraped_input[i].name
          /\ listing[1].items[k].id # Falsy
    /\ resolution.updated = scraped_input

\* C19: a second run of resolve_article_ids on the same articles, and a run on
\* the first run's output, against the same listing, return the same ids, the
\* same classification of every article and the same two counts as the first
C19_ResolverIdempotent ==
    /\ fetch_pc \in {"rerun", "again"} => resolution_rerun = resolution
    /\ fetch_pc = "again" =>
          /\ resolution2 = resolution
          /\ \A i \in 1..Len(scraped_input) :
                IsKey(resolution.updated[i].name, fetch_result.articles)
                    <=> IsKey(scraped_input[i].name, fetch_result.articles)

\* the first run rewrote an id and kept another, and both further runs are done
C19_Witness ==
    /\ fetch_pc = "again"
    /\ fetch_result.success
    /\ resolution.updates_count > 0
    /\ resolution.new_articles_count > 0
    /\ resolution.updated # scraped_input

\* every request of the chain succeeds
AllPagesOk == \A i \in 1..Len(listing) : listing[i].kind = "ok"

\* C20: over a chain of pages whose requests all succeed, the fetch makes at
\* most one request per page while it runs, returns after exactly one request
\* per page with the items of all pages in page order, and does return
C20_PaginationTerminates ==
    /\ [](AllPagesOk =>
            /\ page_count <= Len(listing)
            /\ fetch_pc \notin {"idle", "fetching"} =>
                  /\ page_count = Len(listing)
                  /\ fetch_result =
                        [success |-> TRUE, articles |-> PageItems(listing, Len(listing))])
    /\ (AllPagesOk /\ fetch_pc = "fetching") ~> (fetch_pc # "fetching")

\* a chain of two non-empty pages has been fetched
C20_Witness ==
    /\ fetch_pc = "fetched"
    /\ AllPagesOk
    /\ Len(listing) = 2
    /\ listing[1].items # <<>>
    /\ listing[2].items # <<>>
    /\ page_count = 2
    /\ fetch_result.success

\* ------------- generate_article_id_from_url / generate_unique_title_from_url
\* longest path drawn for a URL, and largest index of a page in the payload
MaxPathLen == 3
MaxIndex == 1

\* strings are handled as Python handles str: by position
Char(s, i) == SubSeq(s, i, i)
Has(s, ch) == \E i \in 1..Len(s) : Char(s, i) = ch
StartsWithAt(s, p, i) == i + Len(p) - 1 <= Len(s) /\ SubSeq(s, i, i + Len(p) - 1) = p

\* str.replace(old, new) from position i on
RECURSIVE ReplaceFrom(_, _, _, _)
ReplaceFrom(s, old, new, i) ==
    IF i > Len(s) THEN ""
    ELSE IF StartsWithAt(s, old, i) THEN new \o ReplaceFrom(s, old, new, i + Len(old))
    ELSE Char(s, i) \o ReplaceFrom(s, old, new, i + 1)

Replace(s, old, new) == ReplaceFrom(s, old, new, 1)

\* str.strip(ch)
RECURSIVE LStrip(_, _)
LStrip(s, ch) == IF Len(s) > 0 /\ Char(s, 1) = ch THEN LStrip(Tail(s), ch) ELSE s
RECURSIVE RStrip(_, _)
RStrip(s, ch) ==
    IF Len(s) > 0 /\ Char(s, Len(s)) = ch THEN RStrip(SubSeq(s, 1, Len(s) - 1), ch) ELSE s
Strip(s, ch) == RStrip(LStrip(s, ch), ch)

LowerLetters == "abcdefghijklmnopqrstuvwxyz"
UpperLetters == "ABCDEFGHIJKLMNOPQRSTUVWXYZ"
IsAlpha(ch) == Has(LowerLetters, ch) \/ Has(UpperLetters, ch)
IsDigit(ch) == Has("0123456789", ch)
\* the class [a-zA-Z0-9_]
IsWordChar(ch) == IsAlpha(ch) \/ IsDigit(ch) \/ ch = "_"

\* re.sub(r'[^a-zA-Z0-9_]', '', s)
RECURSIVE RemoveSpecial(_)
RemoveSpecial(s) ==
    IF Len(s) = 0 THEN ""
    ELSE (IF IsWordChar(Char(s, 1)) THEN Char(s, 1) ELSE "") \o RemoveSpecial(Tail(s))

\* str.upper / str.lower of one character
ToCase(ch, from, to) ==
    IF Has(from, ch)
    THEN Char(to, CHOOSE i \in 1..Len(from) : Char(from, i) = ch)
    ELSE ch
RECURSIVE Lower(_)
Lower(s) ==
    IF Len(s) = 0 THEN "" ELSE ToCase(Char(s, 1), UpperLetters, LowerLetters) \o Lower(Tail(s))
\* str.capitalize
Capitalize(s) ==
    IF Len(s) = 0 THEN "" ELSE ToCase(Char(s, 1), LowerLetters, UpperLetters) \o Lower(Tail(s))

\* position of the first character of s, from i on, that is in the string
\* stops; Len(s) + 1 when there is none
RECURSIVE FindAny(_, _, _)
FindAny(s, stops, i) ==
    IF i > Len(s) \/ Has(stops, Char(s, i)) THEN i ELSE FindAny(s, stops, i + 1)

\* urlparse of an https URL, or of a string without a scheme: the network
\* location runs to the first "/", "?" or "#", the path to the first "?" or "#"
urlparse(url) ==
    IF StartsWithAt(url, "https://", 1)
    THEN LET a == FindAny(url, "/?#", 9)
             b == FindAny(url, "?#", a)
         IN  [netloc |-> SubSeq(url, 9, a - 1), path |-> SubSeq(url, a, b - 1)]
    ELSE [netloc |-> "", path |-> SubSeq(url, 1, FindAny(url, "?#", 1) - 1)]

\* urlparse raises ValueError for a bracket without its partner in the
\* network location
UrlParseRaises(url) ==
    LET netloc == urlparse(url).netloc IN Has(netloc, "[") # Has(netloc, "]")

\* hashlib.md5(source_url.encode()).hexdigest()[:8]: eight hexadecimal digits
\* that the URL alone determines; the digest is not computed, two digests
\* stand for all, one starting with a letter and one with a digit
md5_hex8(url) == IF Len(url) % 2 = 0 THEN "d41d8cd9" ELSE "0cc175b9"

\* re.sub(r'\.(html?|php|asp|jsp)$', '', s, flags=re.IGNORECASE)
RemoveExtension(s) ==
    LET E == {e \in {".html", ".htm", ".php", ".asp", ".jsp"} :
                 /\ Len(e) <= Len(s)
                 /\ Lower(SubSeq(s, Len(s) - Len(e) + 1, Len(s))) = e}
    IN  IF E = {} THEN s
        ELSE LET e == CHOOSE e \in E : TRUE IN SubSeq(s, 1, Len(s) - Len(e))

\* generate_article_id_from_url truncating before it adds the "page_" prefix
generate_article_id_from_url_PrefixLast(url, index) ==
    IF UrlParseRaises(url) THEN "page_" \o md5_hex8(url)
    ELSE LET parsed_url == urlparse(url)
             path == Strip(parsed_url.path, "/")
         IN  IF path = ""
             THEN Replace(Replace(parsed_url.netloc, "www.", ""), ".", "_") \o "_home"
             ELSE LET replaced == Replace(Replace(Replace(path, "/", "_"), "-", "_"), ".", "_")
                      cleaned == RemoveSpecial(RemoveExtension(replaced))
                      cut == IF Len(cleaned) > 50 THEN SubSeq(cleaned, 1, 50) ELSE cleaned
                  IN  IF cut = "" THEN "page_" \o md5_hex8(url)
                      ELSE IF ~IsAlpha(Char(cut, 1)) THEN "page_" \o cut ELSE cut

generate_article_id_from_url(url, index) ==
    IF UrlParseRaises(url) THEN "page_" \o md5_hex8(url)
    ELSE LET parsed_url == urlparse(url)
             path == Strip(parsed_url.path, "/")
         IN  IF path = ""
             THEN Replace(Replace(parsed_url.netloc, "www.", ""), ".", "_") \o "_home"
             ELSE LET replaced == Replace(Replace(Replace(path, "/", "_"), "-", "_"), ".", "_")
                      cleaned == RemoveSpecial(RemoveExtension(replaced))
                      prefixed == IF cleaned # "" /\ ~IsAlpha(Char(cleaned, 1))
                                  THEN "page_" \o cleaned ELSE cleaned
                      clean_path == IF prefixed = "" THEN "page_" \o md5_hex8(url)
                                    ELSE prefixed
                  IN  IF Len(clean_path) > 50 THEN SubSeq(clean_path, 1, 50) ELSE clean_path

\* path.split('/')[-1]: what follows the last "/"
RECURSIVE LastPart(_)
LastPart(s) ==
    IF Len(s) = 0 \/ Char(s, Len(s)) = "/" THEN ""
    ELSE LastPart(SubSeq(s, 1, Len(s) - 1)) \o Char(s, Len(s))

\* re.sub(r'^\d+-', '', s)
StripLeadingNumber(s) ==
    LET d == CHOOSE k \in 1..(Len(s) + 1) :
                 /\ \A i \in 1..(k - 1) : IsDigit(Char(s, i))
                 /\ k = Len(s) + 1 \/ ~IsDigit(Char(s, k))
    IN  IF d > 1 /\ d <= Len(s) /\ Char(s, d) = "-" THEN SubSeq(s, d + 1, Len(s)) ELSE s

\* ' '.join(word.capitalize() for word in s.split())
RECURSIVE TitleWords(_)
TitleWords(s) ==
    LET t == LStrip(s, " ")
        e == FindAny(t, " ", 1)
        rest == TitleWords(SubSeq(t, e, Len(t)))
    IN  IF t = "" THEN ""
        ELSE Capitalize(SubSeq(t, 1, e - 1)) \o (IF rest = "" THEN "" ELSE " " \o rest)

\* f"Page {index + 1}"
PageTitle(index) == "Page " \o ToString(index + 1)

\* generate_unique_title_from_url keeping the leading number of the segment
generate_unique_title_from_url_KeepsNumber(url, index) ==
    IF UrlParseRaises(url) THEN PageTitle(index)
    ELSE LET last_part == LastPart(Strip(urlparse(url).path, "/"))
             readable_title ==
                 TitleWords(Replace(Replace(last_part, "-", " "), "_", " "))
         IN  IF readable_title # "" THEN readable_title ELSE PageTitle(index)

generate_unique_title_from_url(url, index) ==
    IF UrlParseRaises(url) THEN PageTitle(index)
    ELSE LET last_part == LastPart(Strip(urlparse(url).path, "/"))
             clean_part == StripLeadingNumber(last_part)
             readable_title ==
                 TitleWords(Replace(Replace(clean_part, "-", " "), "_", " "))
         IN  IF readable_title # "" THEN readable_title ELSE PageTitle(index)

\* strings over the characters of alphabet, of length n
RECURSIVE StringsOfLen(_, _)
StringsOfLen(alphabet, n) ==
    IF n = 0 THEN {""}
    ELSE {p \o Char(alphabet, i) : p \in StringsOfLen(alphabet, n - 1), i \in 1..Len(alphabet)}

\* the URLs the crawl may report for a page
SourceURLs ==
    LET Hosts == {"example.com", "www.example.com", "mywww.example.com", "[example.com"}
        Paths == UNION {StringsOfLen("/-._7aB?%", n) : n \in 0..MaxPathLen}
        Pages == {"/about", "/docs/index", "/7-petting-zoo-animals",
                  "/blog/2024/a-very-long-article-slug-that-goes-on-and-on",
                  "/2024/11/05/a-very-long-article-slug-that-goes-on-and-on"}
        Suffixes == {"", ".html", ".HTM", ".php", ".Asp", ".jsp", ".txt", "/"}
    IN  {"https://" \o h \o p :
             h \in Hosts, p \in {q \in Paths : Len(q) <= 1}}
            \cup {"https://example.com" \o p : p \in Paths}
            \cup {"https://example.com" \o p \o e : p \in Pages, e \in Suffixes}
            \cup {"N/A"}

\* format_for_ada_upload calls both generators for the page at an index
Generate(index) ==
    /\ source_url # ""
    /\ Len(generated) < 2
    /\ generated' = Append(generated,
                           [index |-> index,
                            id |-> generate_article_id_from_url(source_url, index),
                            title |-> generate_unique_title_from_url(source_url, index)])
    /\ UNCHANGED <<source_url, payload, handled, pc, sessionVars, argVars,
                   resolved_articles, countVars, loopVars, retryVars, outcome,
                   remote_articles, faults, plan, hist, pollVars, listingVars>>

InitGenerate ==
    /\ InitSession
    /\ InitLocals
    /\ remote_articles = <<>>
    /\ faults = 0
    /\ plan = 0
    /\ PollerIdle
    /\ ListingIdle
    /\ source_url \in SourceURLs
    /\ generated = <<>>
    /\ ShapesIdle

NextGenerate == \E index \in 0..MaxIndex : Generate(index)

SpecGenerate == InitGenerate /\ [][NextGenerate]_vars


\* C21: the calls of the two generators made for one URL return the same id
\* and the same title, whatever index each call was given
C21_GeneratorsDependOnUrlOnly ==
    \A j, k \in 1..Len(generated) :
        /\ generated[j].id = generated[k].id
        /\ generated[j].title = generated[k].title

\* C22: for a URL with an empty path that parses, the id is the host without
\* a leading "www.", its dots replaced by underscores, followed by "_home";
\* "https://example.com/" gives "example_com_home" and
\* "https://example.com/7-petting-zoo-animals" gives "page_7_petting_zoo_animals"
C22_RootAndExampleIds ==
    \A k \in 1..Len(generated) :
        LET host == urlparse(source_url).netloc
            bare == IF StartsWithAt(host, "www.", 1) THEN SubSeq(host, 5, Len(host)) ELSE host
        IN  /\ (~UrlParseRaises(source_url) /\ Strip(urlparse(source_url).path, "/") = "")
                  => generated[k].id = Replace(bare, ".", "_") \o "_home"
            /\ source_url = "https://example.com/" => generated[k].id = "example_com_home"
            /\ source_url = "https://example.com/7-petting-zoo-animals"
                  => generated[k].id = "page_7_petting_zoo_animals"

\* ------------------------------------ deliveries against a free environment
\* most articles of an upload, and most retries per article, when every
\* request may be answered in any way
MaxDeliverArticles == 2
MaxDeliverRetries == 3

InitDeliver ==
    /\ InitSession
    /\ InitLocals
    /\ remote_articles = <<>>
    /\ faults = 0
    /\ plan = FreePlan
    /\ PollerIdle
    /\ ListingIdle
    /\ GeneratorIdle

\* main: the upload button, pressed once in the session
DeliverUpload ==
    /\ pc = "idle"
    /\ outcome.kind = "none"
    /\ \E n \in 1..MaxDeliverArticles, bs \in BatchSizes,
          mr \in MinRetries..MaxDeliverRetries :
          /\ Begin([i \in 1..n |-> format_for_ada_upload(i)], bs, mr)
          /\ UNCHANGED session_failed_uploads

NextDeliver ==
    \/ DeliverUpload
    \/ ResolveStep
    \/ EnterBatch
    \/ BeginArticle
    \/ EndBatch
    \/ AttemptStep
    \/ Record
    \/ Finish
    \/ Return

SpecDeliver == InitDeliver /\ [][NextDeliver]_vars

\* C23: the waits of an article start at 1 second and each is the double of
\* the one before; between two attempts every failed attempt so far was
\* followed by a wait; when the attempts are over no wait followed a
\* successful attempt nor the last failed one
C23_BackoffDoubles ==
    /\ \A i \in 1..Len(hist.waits) :
          hist.waits[i] = IF i = 1 THEN 1 ELSE 2 * hist.waits[i - 1]
    /\ pc = "attempt" => Len(hist.waits) = hist.failures
    /\ pc = "record" =>
          Len(hist.waits) = IF result.success THEN hist.failures ELSE hist.failures - 1

\* an article failed three attempts: waits of 1 and 2 seconds, none at the end
C23_Witness ==
    /\ pc = "record"
    /\ ~result.success
    /\ hist.failures = 3
    /\ hist.waits = <<1, 2>>

C26_HttpFailureRecorded ==
    (/\ pc = "article"
     /\ hist.tries > 0
     /\ ~upload_results[Len(upload_results)].success
     /\ NoStatus \notin hist.statuses) =>
        LET e == upload_results[Len(upload_results)]
            f == session_failed_uploads[Len(session_failed_uploads)]
        IN  /\ e.status_code \in hist.statuses
            /\ e.error \notin {None, ""}
            /\ f.last_error \notin {None, ""}

\* ------------------------------------- dict-shaped and object-shaped payloads
\* a payload is its field values and the names of the fields it lacks
Shapes == {"dict", "object"}

\* d.get(f, default) on a dict, getattr(o, f, default) on an object
get(p, f, default) == IF f \in p.absent THEN default ELSE p[f]

\* the status responses get_crawl_status may return, field by field
StatusPayloads ==
    {[kind |-> "status", absent |-> a, status |-> s, completed |-> 1, total |-> 2,
      data |-> <<1>>] :
        a \in SUBSET {"status", "completed", "total", "data"},
        s \in {None, "scraping", "completed", "failed", "pending"}}

\* lines 570-587: the fields the poller reads from a status response
read_status(shape, p) ==
    IF shape = "dict" \/ "status" \notin p.absent
    THEN [status |-> get(p, "status", None), completed |-> get(p, "completed", 0),
          total |-> get(p, "total", 0), data |-> get(p, "data", <<>>)]
    ELSE [status |-> None, completed |-> 0, total |-> 0, data |-> <<>>]

\* what the poller does with the status it read: the branch it takes and the
\* value it returns, if it returns
poll_branch(shape, p) ==
    LET status == read_status(shape, p).status
    IN  CASE status = "scraping" -> [branch |-> "scraping", returns |-> "nothing"]
          [] status = "completed" -> [branch |-> "completed", returns |-> "status_response"]
          [] status = "failed" -> [branch |-> "failed", returns |-> "None"]
          [] OTHER -> [branch |-> "other", returns |-> "nothing"]

\* the metadata of a page record: missing fields, or the value None
Metadatas ==
    {[isNone |-> n, absent |-> a, title |-> "Title", sourceURL |-> "https://example.com/a",
      url |-> "https://example.com/b"] :
        n \in BOOLEAN, a \in SUBSET {"title", "sourceURL", "url"}}

\* the page records of a completed crawl, field by field
PagePayloads ==
    {[kind |-> "page", absent |-> a, markdown |-> "markdown", content |-> "content",
      metadata |-> m, use_url_titles |-> u] :
        a \in SUBSET {"markdown", "content", "metadata"}, m \in Metadatas, u \in BOOLEAN}

\* metadata.get / getattr(metadata, ...) and what follows, for a metadata
\* whose fields can be read
ada_format(page_data, metadata, index) ==
    LET markdown_content == get(page_data, "markdown", get(page_data, "content", ""))
        title == get(metadata, "title", PageTitle(index))
        url == get(metadata, "sourceURL", get(metadata, "url", "N/A"))
    IN  [raised |-> FALSE,
         id |-> generate_article_id_from_url(url, index),
         name |-> IF page_data.use_url_titles
                  THEN generate_unique_title_from_url(url, index) ELSE title,
         content |-> markdown_content,
         url |-> url]

\* a metadata without any field: {} or an object without the attributes
EmptyMetadata ==
    [isNone |-> FALSE, absent |-> {"title", "sourceURL", "url"}, title |-> "",
     sourceURL |-> "", url |-> ""]

\* format_for_ada_upload of a page record of the given shape whose metadata,
\* when it has one, has the same shape: a dict page calls metadata.get, which
\* None does not have; an object page reads None with getattr
format_page(shape, page_data, index) ==
    LET metadata == get(page_data, "metadata", EmptyMetadata)
    IN  IF metadata.isNone
        THEN IF shape = "dict"
             THEN [raised |-> TRUE, id |-> "", name |-> "", content |-> "", url |-> ""]
             ELSE ada_format(page_data, EmptyMetadata, index)
        ELSE ada_format(page_data, metadata, index)

\* the payload is handled in one shape
Handle(shape) ==
    /\ payload.kind # "none"
    /\ shape \notin DOMAIN handled
    /\ handled' = handled @@ (shape :>
                     IF payload.kind = "status" THEN poll_branch(shape, payload)
                     ELSE format_page(shape, payload, 0))
    /\ UNCHANGED <<payload, source_url, generated, pc, sessionVars, argVars,
                   resolved_articles, countVars, loopVars, retryVars, outcome,
                   remote_articles, faults, plan, hist, pollVars, listingVars>>

InitShapes ==
    /\ InitSession
    /\ InitLocals
    /\ remote_articles = <<>>
    /\ faults = 0
    /\ plan = 0
    /\ PollerIdle
    /\ ListingIdle
    /\ source_url = ""
    /\ generated = <<>>
    /\ payload \in StatusPayloads \cup PagePayloads
    /\ handled = <<>>

NextShapes == \E shape \in Shapes : Handle(shape)

SpecShapes == InitShapes /\ [][NextShapes]_vars

\* C24: a payload handled as a dict and as an object with the same field
\* values gives the same branch and return value in the poller and the same
\* article record in the conversion
C24_ShapesTreatedAlike ==
    DOMAIN handled = Shapes => handled["dict"] = handled["object"]

\* C27: an invocation over a selected list other than that of the interrupted
\* invocation which left completed > 0 in the session attempts every article
\* of its list before its batch loop ends
C27_StaleResumeHidesNothing ==
    (/\ pc = "summary"
     /\ batch_idx >= num_batches
     /\ hist.excFree
     /\ ~hist.resumes
     /\ hist.left > 0) =>
        hist.attempted = 0..(Len(resolved_articles) - 1)

\* C28: a status query that raises, or that returns a status other than
\* completed and failed (scraping, an unknown one, none at all), leaves the
\* poll in its loop with nothing returned; the poll leaves its loop only in a
\* step whose query reports completed or failed, or with the attempts used up
C28_OnlyTerminalStatusEndsPoll ==
    /\ [][(poll_hist'.queries = poll_hist.queries + 1
             /\ poll_hist'.status \notin {"completed", "failed"})
            => /\ poll_pc' = "loop"
               /\ poll_hist'.ended = "none"
               /\ final_result' = final_result]_vars
    /\ [][(poll_pc = "loop" /\ poll_pc' # "loop")
            => \/ /\ poll_hist'.queries = poll_hist.queries + 1
                  /\ poll_hist'.status \in {"completed", "failed"}
               \/ /\ attempt = max_attempts
                  /\ poll_hist'.queries = poll_hist.queries]_vars

\* the poll goes on after a query that raised, earlier queries made
C28_Witness ==
    /\ poll_pc = "loop"
    /\ poll_hist.status = "exception"
    /\ poll_hist.queries > 2
    /\ attempt < max_attempts

\* C29: as long as no query has reported completed the value given to the
\* progress bar is at most 0.9; after a query that reported scraping it is
\* completed/total when total > 0 and that is at most 0.9, 0.9 when it is
\* more, and 0.1 when total is 0; the value 1.0 is given only by the step
\* whose query reports completed
C29_ProgressCapped ==
    /\ [](poll_hist.status # "completed" =>
            10 * poll_hist.progress[1] <= 9 * poll_hist.progress[2])
    /\ [](poll_hist.status = "scraping" =>
            LET c == poll_hist.completed
                t == poll_hist.total
                p == poll_hist.progress
            IN  IF t = 0 THEN p[1] * 10 = p[2]
                ELSE IF 10 * c <= 9 * t THEN p[1] * t = c * p[2]
                ELSE p[1] * 10 = 9 * p[2])
    /\ [][poll_hist'.progress[1] = poll_hist'.progress[2]
            => \/ poll_hist.progress[1] = poll_hist.progress[2]
               \/ /\ poll_hist'.queries = poll_hist.queries + 1
                  /\ poll_hist'.status = "completed"]_vars

\* a running job reported all of its pages done: the bar shows 0.9
C29_Witness ==
    /\ poll_pc = "loop"
    /\ poll_hist.status = "scraping"
    /\ poll_hist.total > 0
    /\ poll_hist.completed = poll_hist.total
    /\ poll_hist.progress = <<9, 10>>

C31_CountsCoverInput ==
    Resolved =>
        resolution.updates_count + resolution.new_articles_count = Len(scraped_input)

\* C32: when resolve_article_ids has built its map from a fetched listing, the
\* keys of the map are exactly the names that some fetched article carries
\* together with an id, both non-empty, and a key maps to the id of the last
\* fetched article that carries the name with an id
C32_MapOfFetchedNames ==
    (Resolved /\ fetch_result.success) =>
        LET arts == fetch_result.articles
            m == existing_name_to_id(arts, Len(arts))
            valid(k) == arts[k].name # Falsy /\ arts[k].id # Falsy
        IN  /\ DOMAIN m = {arts[k].name : k \in {j \in 1..Len(arts) : valid(j)}}
            /\ \A k \in 1..Len(arts) :
                  (valid(k) /\ \A j \in (k + 1)..Len(arts) :
                                  ~(valid(j) /\ arts[j].name = arts[k].name))
                      => m[arts[k].name] = arts[k].id

\* the map was built from a listing that carries one name twice with two ids
C32_Witness ==
    /\ fetch_pc = "resolved"
    /\ fetch_result.success
    /\ \E j, k \in 1..Len(fetch_result.articles) :
          /\ j < k
          /\ fetch_result.articles[j].name = fetch_result.articles[k].name
          /\ fetch_result.articles[j].name # Falsy
          /\ fetch_result.articles[j].id # Falsy
          /\ fetch_result.articles[k].id # Falsy
          /\ fetch_result.articles[j].id # fetch_result.articles[k].id

\* ------------------------------------------------- the generators, continued
\* C33: for a URL whose path ends in .html, .htm, .php, .asp or .jsp, in any
\* letter case, the id is the id of the URL without the extension, and does
\* not end with the letters of the extension: "/about.html" gives the id of
\* "/about"
C33_ExtensionStripped ==
    \A k \in 1..Len(generated) :
        \A e \in {".html", ".htm", ".php", ".asp", ".jsp"} :
            LET n == Len(source_url) - Len(e)
            IN  (n > 0 /\ Lower(SubSeq(source_url, n + 1, Len(source_url))) = e) =>
                    /\ generated[k].id =
                          generate_article_id_from_url(SubSeq(source_url, 1, n),
                                                       generated[k].index)
                    /\ source_url = "https://example.com/about.html"
                          => generated[k].id = "about"

\* C34: for a URL whose path is not empty once its slashes are stripped, the
\* id is not empty, is made of ASCII letters, digits and underscores only,
\* starts with a letter and has at most 50 characters, the "page_" prefix
\* included
C34_IdWellFormed ==
    \A k \in 1..Len(generated) :
        LET id == generated[k].id
        IN  (UrlParseRaises(source_url) \/ Strip(urlparse(source_url).path, "/") # "") =>
                /\ id # ""
                /\ \A i \in 1..Len(id) : IsWordChar(Char(id, i))
                /\ IsAlpha(Char(id, 1))
                /\ Len(id) <= 50

\* an id was generated for a long path that starts with a digit: it has the
\* prefix and is cut to 50 characters
C34_Witness ==
    /\ generated # <<>>
    /\ source_url = "https://example.com/2024/11/05/a-very-long-article-slug-that-goes-on-and-on"
    /\ Len(generated[1].id) = 50
    /\ StartsWithAt(generated[1].id, "page_2024_11_05_a_very", 1)

\* the title the claim describes for a segment, read character by character:
\* "-", "_" and spaces separate words, a word starts with its first character
\* in upper case and goes on in lower case, one space between two words
RECURSIVE TitleOfSegment(_, _, _)
TitleOfSegment(s, out, inWord) ==
    IF s = "" THEN out
    ELSE LET c == Char(s, 1)
         IN  IF c \in {"-", "_", " "} THEN TitleOfSegment(Tail(s), out, FALSE)
             ELSE IF inWord
             THEN TitleOfSegment(Tail(s), out \o ToCase(c, UpperLetters, LowerLetters), TRUE)
             ELSE TitleOfSegment(Tail(s),
                                 (IF out = "" THEN "" ELSE out \o " ")
                                     \o ToCase(c, LowerLetters, UpperLetters),
                                 TRUE)

\* C35: for a URL that parses, the title is made from the last segment of the
\* path: one leading "digits-" prefix removed, every "-" and "_" a word break,
\* each word capitalised; when no word is left (empty path, a segment that is
\* only the prefix or only separators) the title is "Page {index + 1}";
\* "/7-petting-zoo-animals" gives "Petting Zoo Animals"
C35_TitleFromLastSegment ==
    \A k \in 1..Len(generated) :
        ~UrlParseRaises(source_url) =>
            LET path == Strip(urlparse(source_url).path, "/")
                from == CHOOSE i \in 1..(Len(path) + 1) :
                            /\ ~Has(SubSeq(path, i, Len(path)), "/")
                            /\ i = 1 \/ Char(path, i - 1) = "/"
                segment == SubSeq(path, from, Len(path))
                D == {d \in 1..(Len(segment) - 1) :
                         /\ \A i \in 1..d : IsDigit(Char(segment, i))
                         /\ Char(segment, d + 1) = "-"}
                rest == IF D = {} THEN segment
                        ELSE SubSeq(segment, (CHOOSE d \in D : TRUE) + 2, Len(segment))
                words == TitleOfSegment(rest, "", FALSE)
            IN  /\ generated[k].title =
                      IF words = "" THEN "Page " \o ToString(generated[k].index + 1)
                      ELSE words
                /\ source_url = "https://example.com/7-petting-zoo-animals"
                      => generated[k].title = "Petting Zoo Animals"

\* a title was generated for the example: the digit prefix is gone and the
\* three words are capitalised
C35_Witness ==
    /\ generated # <<>>
    /\ source_url = "https://example.com/7-petting-zoo-animals"
    /\ generated[1].title = "Petting Zoo Animals"

\* ----------------------------------------------- one delivery attempt, classified
\* C36: a delivery attempt is classified as a success when the request was
\* answered with a 2xx status, and as a failure for every other status, for a
\* timeout, a connection error and any other exception
C36_SuccessIsAny2xx ==
    hist.tries > 0 =>
        (hist.last.success
            <=> (hist.last.kind = "http" /\ hist.last.status \in 200..299))

\* --------------------------------------------- the batch the session points at
\* C37: while no unexpected exception has been raised and the invocations
\* over the selected list started from reset progress tracking and kept their
\* batch size, current_batch * batch_size <= completed <=
\* (current_batch + 1) * batch_size at every point of an invocation and after
\* an interruption
C37_BatchBracketsCompleted ==
    (/\ hist.excFree
     /\ hist.fresh
     /\ pc # "idle" \/ outcome.kind = "interrupted") =>
        LET bs == IF pc = "idle" THEN hist.size ELSE batch_size
        IN  /\ current_batch * bs <= completed
            /\ completed <= (current_batch + 1) * bs

\* an upload resumed in its second batch has completed an article there
C37_Witness ==
    /\ Resuming
    /\ hist.excFree
    /\ hist.fresh
    /\ pc = "article"
    /\ batch_size = 2
    /\ current_batch = 1
    /\ completed = 3
    /\ hist.left = 2

\* ------------------------------------------- resolve_article_ids: its input
\* every field of the returned articles but the id equals the input's, and
\* the list resolve_article_ids was given still holds the generated ids
InputKept ==
    /\ Len(resolution.updated) = Len(scraped_input)
    /\ \A i \in 1..Len(scraped_input) :
          /\ resolution.updated[i] =
                [scraped_input[i] EXCEPT !.id = resolution.updated[i].id]
          /\ scraped_input[i] = format_for_ada_upload(i)

\* C38 as stated: whenever resolve_article_ids has returned, each returned
\* article is a copy whose fields equal the input's except possibly the id,
\* and the input list still holds the generated ids
C38_ReturnsCopies ==
    Resolved => (resolution.copies /\ InputKept)

\* C38 amended: whenever resolve_article_ids has returned, the fields of each
\* returned article equal the input's except possibly the id and the input
\* list still holds the generated ids; the returned articles are copies when
\* the listing fetch succeeded, and the articles of the input list itself,
\* with their ids, when it failed
C38_InputNotModified ==
    Resolved =>
        /\ InputKept
        /\ resolution.copies <=> fetch_result.success
        /\ ~resolution.copies => resolution.updated = scraped_input

\* resolve_article_ids has returned copies, one of them with a remote id
C38_Witness ==
    /\ fetch_pc = "resolved"
    /\ resolution.copies
    /\ \E i \in 1..Len(scraped_input) : resolution.updated[i].id # scraped_input[i].id
    /\ \E i \in 1..Len(scraped_input) : resolution.updated[i].id = scraped_input[i].id

====
